---- MODULE Spec2Model ----
(***************************************************************************)
(* HH42 digital thermometer reader (src/src/index.ts).                     *)
(*                                                                         *)
(* The class HH42 owns a serial connection handle (portTemperature), a     *)
(* line buffer (buffer) and a poll timer handle (readingInterval).  The    *)
(* model keeps every SerialPort object the reader has created, every       *)
(* interval timer that is still scheduled, and the bytes the device has    *)
(* yet to deliver.  Characters and bytes are their numeric codes.          *)
(***************************************************************************)
EXTENDS Integers, Sequences, FiniteSets, TLC

VARIABLES
    conns,            \* every SerialPort created so far: [path, state, rts]
    portTemperature,  \* this.portTemperature: 0 (null) or an index of conns
    readingInterval,  \* this.readingInterval: 0 (null) or a timer handle
    timers,           \* the interval timers scheduled and not cleared
    timerSeq,         \* the last timer handle setInterval returned
    buffer,           \* this.buffer, a sequence of character codes
    input,            \* bytes the device will still deliver
    received,         \* history: every byte delivered to a data handler
    readings,         \* history: every serialDataTemperature event emitted
    stopped,          \* history: stopTemperatureReading was called since
                      \* the last initializeSerialPort
    last              \* what the last handler run did

vars == <<conns, portTemperature, readingInterval, timers, timerSeq,
          buffer, input, received, readings, stopped, last>>

-----------------------------------------------------------------------------
(* Bounds *)

\* initializeSerialPort is called at most MaxConns times
MaxConns == 3
\* a stream of the parsing specification is made of at most MaxSegs segments
MaxSegs == 3
\* the exhaustively enumerated lines have at most MaxLine characters
MaxLine == 4
\* the platform lists at most MaxPorts serial ports
MaxPorts == 3

-----------------------------------------------------------------------------
(* Character codes *)

TAB == 9
LF == 10
VT == 11
FF == 12
CR == 13
SP == 32
PLUS == 43
MINUS == 45
DOT == 46
ZERO == 48
NINE == 57
GT == 62
UC == 67
UF == 70
UT == 84

\* the characters String.prototype.trim removes and the regex class \s
\* matches, among the codes 0..127 an ascii-decoded chunk can hold
WhiteSpace == {TAB, LF, VT, FF, CR, SP}

\* the regex class \d
IsDigit(ch) == ch >= ZERO /\ ch <= NINE

\* the regex class [CF]
UnitLetters == {UC, UF}

\* the separator of this.buffer.split('\r\n')
Terminator == <<CR, LF>>

\* the command the poll timer writes
Command == <<UT, CR, LF>>

Ports == {"COM1", "COM2"}

ErrorMessages == {"EIO"}

-----------------------------------------------------------------------------
(* Buffer.toString('ascii'): every byte gives one character, its high bit   *)
(* dropped                                                                  *)

DecodeByte(b) == b % 128

toStringAscii(data) == [i \in 1..Len(data) |-> DecodeByte(data[i])]

-----------------------------------------------------------------------------
(* String operations of processBuffer, computed as JavaScript computes them *)

\* String.prototype.indexOf('\r\n', from): the first index (1-based) at or
\* after from where the terminator starts, 0 when there is none
RECURSIVE indexOfTerminator(_, _)
indexOfTerminator(s, from) ==
    IF from + 1 > Len(s) THEN 0
    ELSE IF s[from] = CR /\ s[from + 1] = LF THEN from
    ELSE indexOfTerminator(s, from + 1)

\* String.prototype.split('\r\n'): always at least one segment
RECURSIVE split(_)
split(s) ==
    LET i == indexOfTerminator(s, 1)
    IN  IF i = 0 THEN <<s>>
        ELSE <<SubSeq(s, 1, i - 1)>> \o split(SubSeq(s, i + 2, Len(s)))

RECURSIVE trimStart(_)
trimStart(s) ==
    IF s # <<>> /\ s[1] \in WhiteSpace THEN trimStart(Tail(s)) ELSE s

RECURSIVE trimEnd(_)
trimEnd(s) ==
    IF s # <<>> /\ s[Len(s)] \in WhiteSpace
    THEN trimEnd(SubSeq(s, 1, Len(s) - 1))
    ELSE s

\* String.prototype.trim
trim(s) == trimEnd(trimStart(s))

\* the position after the longest run of digits that starts at p
RECURSIVE skipDigits(_, _)
skipDigits(s, p) ==
    IF p <= Len(s) /\ IsDigit(s[p]) THEN skipDigits(s, p + 1) ELSE p

\* a pattern whose decimal point and fraction are optional:
\* /^[-\s]?\d+(\.\d+)?\s?[CF]?$/
regexTestNoPoint(s) ==
    LET p1 == IF 1 <= Len(s) /\ (s[1] = MINUS \/ s[1] \in WhiteSpace)
              THEN 2 ELSE 1
        p2 == skipDigits(s, p1)
        dot == p2 <= Len(s) /\ s[p2] = DOT /\ skipDigits(s, p2 + 1) > p2 + 1
        p4 == IF dot THEN skipDigits(s, p2 + 1) ELSE p2
        p5 == IF p4 <= Len(s) /\ s[p4] \in WhiteSpace THEN p4 + 1 ELSE p4
        p6 == IF p5 <= Len(s) /\ s[p5] \in UnitLetters THEN p5 + 1 ELSE p5
    IN  /\ p2 > p1
        /\ p6 = Len(s) + 1

\* /^[-\s]?\d+\.\d+\s?[CF]?$/.test(s).  The character classes that follow
\* one another are disjoint, so the greedy match is the only match.
regexTest(s) ==
    LET p1 == IF 1 <= Len(s) /\ (s[1] = MINUS \/ s[1] \in WhiteSpace)
              THEN 2 ELSE 1
        p2 == skipDigits(s, p1)
        p3 == p2 + 1
        p4 == skipDigits(s, p3)
        p5 == IF p4 <= Len(s) /\ s[p4] \in WhiteSpace THEN p4 + 1 ELSE p4
        p6 == IF p5 <= Len(s) /\ s[p5] \in UnitLetters THEN p5 + 1 ELSE p5
    IN  /\ p2 > p1
        /\ p2 <= Len(s) /\ s[p2] = DOT
        /\ p4 > p3
        /\ p6 = Len(s) + 1

\* the number a run of digits denotes
RECURSIVE digitsValue(_)
digitsValue(d) ==
    IF d = <<>> THEN 0
    ELSE 10 * digitsValue(SubSeq(d, 1, Len(d) - 1)) + (d[Len(d)] - ZERO)

RECURSIVE pow10(_)
pow10(n) == IF n = 0 THEN 1 ELSE 10 * pow10(n - 1)

\* a number num / 10^exp in lowest decimal form: 1.50 and 1.5 are one value
RECURSIVE decimal(_, _)
decimal(num, exp) ==
    IF exp > 0 /\ num % 10 = 0 THEN decimal(num \div 10, exp - 1)
    ELSE [num |-> num, exp |-> exp]

\* parseFloat(s) for the strings it is called on: leading white space, a
\* sign, digits, a decimal point and digits; what follows is ignored
parseFloat(s) ==
    LET t  == trimStart(s)
        neg == t # <<>> /\ t[1] = MINUS
        p1 == IF t # <<>> /\ t[1] \in {MINUS, PLUS} THEN 2 ELSE 1
        p2 == skipDigits(t, p1)
        hasDot == p2 <= Len(t) /\ t[p2] = DOT
        p3 == IF hasDot THEN p2 + 1 ELSE p2
        p4 == IF hasDot THEN skipDigits(t, p3) ELSE p3
        whole == digitsValue(SubSeq(t, p1, p2 - 1))
        frac  == digitsValue(SubSeq(t, p3, p4 - 1))
        mag   == whole * pow10(p4 - p3) + frac
    IN  decimal(IF neg THEN 0 - mag ELSE mag, p4 - p3)

\* trimmedLine.slice(-1): the last character, empty for the empty string
sliceLast(s) == IF s = <<>> THEN <<>> ELSE <<s[Len(s)]>>

\* a unit test that knows the letter C only
unitOfOnlyC(trimmedLine) ==
    IF sliceLast(trimmedLine) = <<UC>> THEN sliceLast(trimmedLine) ELSE <<>>

\* the unit of a reading (line 61)
unitOf(trimmedLine) ==
    IF sliceLast(trimmedLine) = <<UC>> \/ sliceLast(trimmedLine) = <<UF>>
    THEN sliceLast(trimmedLine)
    ELSE <<>>

\* the body of the for loop for one line: the events it emits.  The field
\* line is history (the raw line the reading came from), not part of the
\* emitted object.
lineEvents(line) ==
    LET trimmedLine == trim(line)
    IN  IF trimmedLine = <<GT>> \/ trimmedLine = <<UT>> THEN <<>>
        ELSE IF regexTest(trimmedLine)
        THEN <<[temperatureValue |-> parseFloat(trimmedLine),
                unit |-> unitOf(trimmedLine),
                line |-> line]>>
        ELSE <<>>

RECURSIVE linesEvents(_)
linesEvents(lines) ==
    IF lines = <<>> THEN <<>>
    ELSE lineEvents(Head(lines)) \o linesEvents(Tail(lines))

\* a buffer that forgets the unterminated tail
poppedBufferDropsTail(lines) == <<>>

\* lines.pop() || '': the buffer processBuffer leaves
poppedBuffer(lines) == lines[Len(lines)]

\* a processBuffer that also parses the unterminated last segment
processBufferEager(buf) ==
    LET lines == split(buf)
    IN  [buffer |-> lines[Len(lines)], events |-> linesEvents(lines)]

\* processBuffer on a buffer value: the buffer it leaves and the
\* serialDataTemperature events it emits, in order
processBuffer(buf) ==
    LET lines == split(buf)
    IN  [buffer |-> poppedBuffer(lines),
         events |-> linesEvents(SubSeq(lines, 1, Len(lines) - 1))]

-----------------------------------------------------------------------------
(* The reader's state and its handlers *)

\* SerialPort.isOpen of connection c in the connection table cs
isOpen(cs, c) == cs[c].state = "open"

\* what a handler run did: the operation, the connection whose event it
\* was (0 for a call or a tick), the writes made, in order, the
\* connections RTS was set on, the timers started, the events emitted, in
\* order, and where a data chunk cut the stream: "start" when the buffer
\* was empty, "terminator" when the buffer ended in a carriage return and
\* the chunk begins with the line feed, "line" otherwise; the timers
\* clearInterval was called on; the outcome of the platform query a call
\* made and what the call returned
Did(op, c, wrote, rts, started, emitted) ==
    [op |-> op, conn |-> c, wrote |-> wrote, rts |-> rts,
     started |-> started, emitted |-> emitted, cut |-> "none",
     cleared |-> {}, query |-> "none", result |-> "none"]

\* the timers stopTemperatureReading calls clearInterval on (lines 86-87)
clearedByStop(ri) == IF ri # 0 THEN {ri} ELSE {}

\* a stop that forgets clearInterval and only drops the handle
timersAfterStopKept(ri, ts) == ts

\* the timers left scheduled by stopTemperatureReading (lines 86-89)
timersAfterStop(ri, ts) == IF ri # 0 THEN ts \ {ri} ELSE ts

\* the connection table after enterHostMode (lines 68-72) with current
\* connection pt
enterHostMode(cs, pt) ==
    IF pt # 0 /\ isOpen(cs, pt) THEN [cs EXCEPT ![pt].rts = TRUE] ELSE cs

\* the connections enterHostMode sets RTS on
hostModeTargets(cs, pt) ==
    IF pt # 0 /\ isOpen(cs, pt) THEN {pt} ELSE {}

\* a requestTemperatureReading that does not ask whether the port is open
requestStartsTimerUnchecked(cs, pt) == pt # 0

\* whether requestTemperatureReading calls setInterval (line 75)
requestStartsTimer(cs, pt) == pt # 0 /\ isOpen(cs, pt)

\* the writes of the interval callback (line 77): the command, to the
\* connection that is current when the timer fires
tickWrites(pt) ==
    IF pt # 0 THEN <<[conn |-> pt, text |-> Command]>> ELSE <<>>

\* the writes made while the open handler runs (lines 39-44):
\* requestTemperatureReading only schedules the interval
openWrites(cs, pt) == <<>>

\* the state after construction (lines 12-14), nothing delivered yet
Constructed ==
    /\ conns = <<>>
    /\ portTemperature = 0
    /\ readingInterval = 0
    /\ timers = {}
    /\ timerSeq = 0
    /\ buffer = <<>>
    /\ received = <<>>
    /\ readings = <<>>
    /\ stopped = FALSE
    /\ last = Did("new", 0, <<>>, {}, {}, <<>>)

\* an initializeSerialPort that starts the new connection on an empty buffer
initializeSerialPortResets(portName) ==
    /\ Len(conns) < MaxConns
    /\ timers' = timersAfterStop(readingInterval, timers)
    /\ readingInterval' = 0
    /\ conns' = Append(
           IF portTemperature # 0 /\ isOpen(conns, portTemperature)
           THEN [conns EXCEPT ![portTemperature].state = "closing"]
           ELSE conns,
           [path |-> portName, state |-> "opening", rts |-> FALSE])
    /\ portTemperature' = Len(conns) + 1
    /\ buffer' = <<>>
    /\ stopped' = FALSE
    /\ last' = [Did("initialize", 0, <<>>, {}, {}, <<>>)
                EXCEPT !.cleared = clearedByStop(readingInterval)]
    /\ UNCHANGED <<timerSeq, input, received, readings>>

\* initializeSerialPort(portName) (lines 21-50)
initializeSerialPort(portName) ==
    /\ Len(conns) < MaxConns
    /\ timers' = timersAfterStop(readingInterval, timers)
    /\ readingInterval' = 0
    /\ conns' = Append(
           IF portTemperature # 0 /\ isOpen(conns, portTemperature)
           THEN [conns EXCEPT ![portTemperature].state = "closing"]
           ELSE conns,
           [path |-> portName, state |-> "opening", rts |-> FALSE])
    /\ portTemperature' = Len(conns) + 1
    /\ stopped' = FALSE
    /\ last' = [Did("initialize", 0, <<>>, {}, {}, <<>>)
                EXCEPT !.cleared = clearedByStop(readingInterval)]
    /\ UNCHANGED <<timerSeq, buffer, input, received, readings>>

\* stopTemperatureReading() (lines 85-90)
stopTemperatureReading ==
    /\ timers' = timersAfterStop(readingInterval, timers)
    /\ readingInterval' = 0
    /\ stopped' = TRUE
    /\ last' = [Did("stop", 0, <<>>, {}, {}, <<>>)
                EXCEPT !.cleared = clearedByStop(readingInterval)]
    /\ UNCHANGED <<conns, portTemperature, timerSeq, buffer, input,
                   received, readings>>

\* the transport holds a port exclusively: a path opens only while no other
\* connection has it open or closing
pathFree(c) ==
    \A d \in 1..Len(conns) :
        d # c /\ conns[d].path = conns[c].path
            => conns[d].state \notin {"open", "closing"}

\* the 'open' event of connection c (lines 39-44); the connection reports
\* open from the moment the event is emitted
onOpen(c) ==
    /\ conns[c].state = "opening"
    /\ pathFree(c)
    /\ LET opened == [conns EXCEPT ![c].state = "open"]
           starts == requestStartsTimer(opened, portTemperature)
       IN  /\ conns' = enterHostMode(opened, portTemperature)
           /\ timerSeq' = IF starts THEN timerSeq + 1 ELSE timerSeq
           /\ readingInterval' = IF starts THEN timerSeq + 1
                                 ELSE readingInterval
           /\ timers' = IF starts THEN timers \cup {timerSeq + 1} ELSE timers
           /\ last' = Did("open", c,
                          openWrites(opened, portTemperature),
                          hostModeTargets(opened, portTemperature),
                          IF starts THEN {timerSeq + 1} ELSE {},
                          <<[type |-> "portOpenedTemperature",
                             arg |-> conns[c].path]>>)
    /\ UNCHANGED <<portTemperature, buffer, input, received, readings,
                   stopped>>

\* one firing of the interval timer t (lines 76-78)
onTick(t) ==
    /\ t \in timers
    /\ last' = Did("tick", 0, tickWrites(portTemperature), {}, {}, <<>>)
    /\ UNCHANGED <<conns, portTemperature, readingInterval, timers,
                   timerSeq, buffer, input, received, readings, stopped>>

\* where the chunk text begins, given the buffer it is appended to
cutOf(buf, text) ==
    IF buf = <<>> THEN "start"
    ELSE IF buf[Len(buf)] = CR /\ text[1] = LF THEN "terminator"
    ELSE "line"

\* a data handler that asks for the next reading as soon as one arrives
onDataPolls(c, k) ==
    /\ isOpen(conns, c)
    /\ k \in 1..Len(input)
    /\ LET data == SubSeq(input, 1, k)
           done == processBuffer(buffer \o toStringAscii(data))
       IN  /\ buffer' = done.buffer
           /\ readings' = readings \o done.events
           /\ received' = received \o data
           /\ input' = SubSeq(input, k + 1, Len(input))
           /\ last' = [Did("data", c,
                           IF done.events # <<>>
                           THEN tickWrites(portTemperature) ELSE <<>>,
                           {}, {},
                           [i \in 1..Len(done.events) |->
                               [type |-> "serialDataTemperature",
                                arg |-> done.events[i]]])
                       EXCEPT !.cut = cutOf(buffer, toStringAscii(data))]
    /\ UNCHANGED <<conns, portTemperature, readingInterval, timers,
                   timerSeq, stopped>>

\* a data handler that assigns the chunk to the buffer instead of appending
onDataAssigns(c, k) ==
    /\ isOpen(conns, c)
    /\ k \in 1..Len(input)
    /\ LET data == SubSeq(input, 1, k)
           done == processBuffer(toStringAscii(data))
       IN  /\ buffer' = done.buffer
           /\ readings' = readings \o done.events
           /\ received' = received \o data
           /\ input' = SubSeq(input, k + 1, Len(input))
           /\ last' = [Did("data", c, <<>>, {}, {},
                           [i \in 1..Len(done.events) |->
                               [type |-> "serialDataTemperature",
                                arg |-> done.events[i]]])
                       EXCEPT !.cut = cutOf(buffer, toStringAscii(data))]
    /\ UNCHANGED <<conns, portTemperature, readingInterval, timers,
                   timerSeq, stopped>>

\* the 'data' event of connection c with the next k bytes of the device's
\* stream (lines 34-37)
onData(c, k) ==
    /\ isOpen(conns, c)
    /\ k \in 1..Len(input)
    /\ LET data == SubSeq(input, 1, k)
           done == processBuffer(buffer \o toStringAscii(data))
       IN  /\ buffer' = done.buffer
           /\ readings' = readings \o done.events
           /\ received' = received \o data
           /\ input' = SubSeq(input, k + 1, Len(input))
           /\ last' = [Did("data", c, <<>>, {}, {},
                           [i \in 1..Len(done.events) |->
                               [type |-> "serialDataTemperature",
                                arg |-> done.events[i]]])
                       EXCEPT !.cut = cutOf(buffer, toStringAscii(data))]
    /\ UNCHANGED <<conns, portTemperature, readingInterval, timers,
                   timerSeq, stopped>>

\* an error handler that also stops polling
onErrorStops(c, message) ==
    /\ conns[c].state \in {"opening", "open"}
    /\ conns' = IF conns[c].state = "opening"
                THEN [conns EXCEPT ![c].state = "closed"]
                ELSE conns
    /\ timers' = timersAfterStop(readingInterval, timers)
    /\ readingInterval' = 0
    /\ last' = Did("error", c, <<>>, {}, {},
                   <<[type |-> "serialErrorTemperature", arg |-> message]>>)
    /\ UNCHANGED <<portTemperature, timerSeq, buffer, input, received,
                   readings, stopped>>

\* the 'error' event of connection c (lines 46-49); an error while opening
\* is a failed open, and the connection never opens
onError(c, message) ==
    /\ conns[c].state \in {"opening", "open"}
    /\ conns' = IF conns[c].state = "opening"
                THEN [conns EXCEPT ![c].state = "closed"]
                ELSE conns
    /\ last' = Did("error", c, <<>>, {}, {},
                   <<[type |-> "serialErrorTemperature", arg |-> message]>>)
    /\ UNCHANGED <<portTemperature, readingInterval, timers, timerSeq,
                   buffer, input, received, readings, stopped>>

\* the close started by SerialPort.close() (line 24) completes
onCloseDone(c) ==
    /\ conns[c].state = "closing"
    /\ conns' = [conns EXCEPT ![c].state = "closed"]
    /\ last' = Did("closed", c, <<>>, {}, {}, <<>>)
    /\ UNCHANGED <<portTemperature, readingInterval, timers, timerSeq,
                   buffer, input, received, readings, stopped>>

-----------------------------------------------------------------------------
(* Byte strings the device sends *)

\* "1.5C\r\n"
ShortReply == <<49, 46, 53, UC, CR, LF>>

\* the streams of the life-cycle specification
LifeStreams == {<<>>, ShortReply}

Init ==
    /\ Constructed
    /\ input \in LifeStreams

Next ==
    \/ \E portName \in Ports : initializeSerialPort(portName)
    \/ stopTemperatureReading
    \/ \E c \in 1..Len(conns) : onOpen(c)
    \/ \E t \in timers : onTick(t)
    \/ \E c \in 1..Len(conns) : \E k \in 1..Len(input) : onData(c, k)
    \/ \E c \in 1..Len(conns) : \E m \in ErrorMessages : onError(c, m)
    \/ \E c \in 1..Len(conns) : onCloseDone(c)

Spec == Init /\ [][Next]_vars

-----------------------------------------------------------------------------
(* The parsing specification: one connection, and a device stream drawn    *)
(* from streams built of segments and from single lines                     *)

\* every sequence of at most n elements of S
RECURSIVE SeqsUpTo(_, _)
SeqsUpTo(S, n) ==
    IF n = 0 THEN {<<>>}
    ELSE LET shorter == SeqsUpTo(S, n - 1)
         IN  shorter \cup {Append(q, x) : q \in shorter, x \in S}

RECURSIVE Flatten(_)
Flatten(ss) == IF ss = <<>> THEN <<>> ELSE Head(ss) \o Flatten(Tail(ss))

\* "12.3", "4C\r\n", "-1.0F\r\n", "\r", "\n", and the byte 0x8D, which
\* decodes to "\r"
Segments ==
    { <<49, 50, DOT, 51>>, <<52, UC, CR, LF>>,
      <<MINUS, 49, DOT, ZERO, UF, CR, LF>>, <<CR>>, <<LF>>, <<141>> }

SegmentStreams == {Flatten(ss) : ss \in SeqsUpTo(Segments, MaxSegs)}

\* "-", " ", "1", ".", "C", ">"
LineAlphabet == {MINUS, SP, 49, DOT, UC, GT}

ShortLines == SeqsUpTo(LineAlphabet, MaxLine)

\* lines put together from a lead, a sign, a whole part ("7", "12", "a"),
\* a point, a fraction, a gap, a unit (C, F, K, T) and a trail, each
\* possibly absent or malformed
BuiltLines ==
    { lead \o sign \o whole \o point \o frac \o gap \o unit \o trail :
        lead \in {<<>>, <<SP>>},
        sign \in {<<>>, <<MINUS>>, <<PLUS>>},
        whole \in {<<>>, <<55>>, <<49, 50>>, <<97>>},
        point \in {<<>>, <<DOT>>},
        frac \in {<<>>, <<53>>, <<51, 52>>},
        gap \in {<<>>, <<SP>>, <<SP, SP>>, <<LF>>},
        unit \in {<<>>, <<UC>>, <<UF>>, <<75>>, <<UT>>},
        trail \in {<<>>, <<TAB>>} }

LineStreams == {line \o Terminator : line \in ShortLines \cup BuiltLines}

ParseStreams == SegmentStreams \cup LineStreams

InitParse ==
    /\ Constructed
    /\ input \in ParseStreams

NextParse ==
    \/ portTemperature = 0 /\ initializeSerialPort("COM1")
    \/ \E c \in 1..Len(conns) : onOpen(c)
    \/ \E c \in 1..Len(conns) : \E k \in 1..Len(input) : onData(c, k)

SpecParse == InitParse /\ [][NextParse]_vars

-----------------------------------------------------------------------------
(* Port discovery: the static getAvailablePorts, which reads and changes   *)
(* nothing of a reader, under a specification of its own                    *)

\* what SerialPort.list() describes a port by
PortInfos ==
    [path : {"COM1", "COM2", "/dev/ttyUSB0"}, manufacturer : {"", "FTDI"}]

\* the outcomes of SerialPort.list(): a list of ports, or a rejection
ListQueries ==
    {[ok |-> TRUE, ports |-> ps, error |-> ""] :
        ps \in SeqsUpTo(PortInfos, MaxPorts)}
    \cup {[ok |-> FALSE, ports |-> <<>>, error |-> e] :
        e \in {"EACCES", "ENOENT"}}

\* ports.map(port => port.path) (line 99)
RECURSIVE mapPath(_)
mapPath(ports) ==
    IF ports = <<>> THEN <<>>
    ELSE <<Head(ports).path>> \o mapPath(Tail(ports))

\* a getAvailablePorts that logs the failure and throws it again
portsResultRethrows(q) ==
    IF q.ok THEN [rejected |-> FALSE, value |-> mapPath(q.ports)]
    ELSE [rejected |-> TRUE, value |-> q.error]

\* how the promise of getAvailablePorts settles (lines 97-103)
portsResult(q) ==
    IF q.ok THEN [rejected |-> FALSE, value |-> mapPath(q.ports)]
    ELSE [rejected |-> FALSE, value |-> <<>>]

\* HH42.getAvailablePorts() with the platform query ending as q
getAvailablePorts(q) ==
    /\ last' = [Did("getAvailablePorts", 0, <<>>, {}, {}, <<>>)
                EXCEPT !.query = q, !.result = portsResult(q)]
    /\ UNCHANGED <<conns, portTemperature, readingInterval, timers,
                   timerSeq, buffer, input, received, readings, stopped>>

InitPorts ==
    /\ Constructed
    /\ input = <<>>

NextPorts == \E q \in ListQueries : getAvailablePorts(q)

SpecPorts == InitPorts /\ [][NextPorts]_vars

-----------------------------------------------------------------------------
(* Claims about the connection and poll timer life cycle *)

OpenConns == {c \in 1..Len(conns) : conns[c].state = "open"}

\* C1: at most one poll timer is scheduled at any instant, whatever the
\* interleaving of initializeSerialPort calls, open events (also of a
\* superseded connection), ticks and stopTemperatureReading calls.
C1_AtMostOneTimer == Cardinality(timers) <= 1

\* C2: at most one connection created by the reader is open at any instant
\* (a connection whose close has been started counts as no longer open).
C2_AtMostOneOpen == Cardinality(OpenConns) <= 1

\* C3: the open reaction makes exactly one write of the command while it
\* runs, and every timer tick makes exactly one write.
C3_OneWriteOnOpen ==
    /\ last.op = "open" =>
           Len(last.wrote) = 1 /\ last.wrote[1].text = Command
    /\ last.op = "tick" =>
           Len(last.wrote) = 1 /\ last.wrote[1].text = Command

\* C4: once stopTemperatureReading has been called, no command is written
\* to any connection until initializeSerialPort is called again.
C4_NoWriteAfterStop == stopped => last.wrote = <<>>

\* C9: every command is written to a connection that is open and on which
\* RTS has been set since it opened.
C9_WriteNeedsRts ==
    \A i \in 1..Len(last.wrote) :
        /\ conns[last.wrote[i].conn].state = "open"
        /\ conns[last.wrote[i].conn].rts

\* C10: after initializeSerialPort has replaced a connection, no open or
\* data event of the replaced connection starts a timer, sets RTS, changes
\* the line buffer or emits a reading or a port-opened notification.
C10_SupersededIsSilent ==
    [][(last'.op \in {"open", "data"} /\ last'.conn # portTemperature')
        => /\ last'.started = {}
           /\ last'.rts = {}
           /\ last'.emitted = <<>>
           /\ buffer' = buffer
           /\ readings' = readings]_vars

-----------------------------------------------------------------------------
(* Claims about line buffering and parsing, stated on the text received    *)

\* the text of every byte delivered so far
TextOf(bytes) == toStringAscii(bytes)

\* the positions where a carriage-return + line-feed starts
TerminatorsIn(s) == {i \in 1..(Len(s) - 1) : s[i] = CR /\ s[i + 1] = LF}

\* the elements of a set of integers in increasing order
Ascending(S) ==
    [i \in 1..Cardinality(S) |->
        CHOOSE x \in S : Cardinality({y \in S : y < x}) = i - 1]

\* the complete lines of s, from left to right: the text between one
\* terminator and the next
CompleteLines(s) ==
    LET at == Ascending(TerminatorsIn(s))
    IN  [k \in 1..Len(at) |->
            SubSeq(s, IF k = 1 THEN 1 ELSE at[k - 1] + 2, at[k] - 1)]

\* the line without the white space around it
Stripped(line) ==
    LET inked == {i \in 1..Len(line) : line[i] \notin WhiteSpace}
    IN  IF inked = {} THEN <<>>
        ELSE SubSeq(line,
                    CHOOSE i \in inked : \A j \in inked : i <= j,
                    CHOOSE i \in inked : \A j \in inked : i >= j)

AllDigits(s, from, to) ==
    from <= to /\ \A i \in from..to : s[i] \in ZERO..NINE

\* t is: an optional sign or white space, digits, a point, digits, an
\* optional white space, an optional unit letter C or F
IsReadingText(t) ==
    \E a \in 0..1 : \E p \in 2..(Len(t) - 1) : \E b \in 0..1 : \E u \in 0..1 :
        /\ a = 1 => t[1] = MINUS \/ t[1] \in WhiteSpace
        /\ t[p] = DOT
        /\ AllDigits(t, a + 1, p - 1)
        /\ Len(t) - u - b >= p + 1
        /\ AllDigits(t, p + 1, Len(t) - u - b)
        /\ b = 1 => t[Len(t) - u] \in WhiteSpace
        /\ u = 1 => t[Len(t)] \in {UC, UF}

\* the line is one the reader has to turn into a reading
Recognised(line) ==
    LET t == Stripped(line)
    IN  t # <<GT>> /\ t # <<UT>> /\ IsReadingText(t)

\* the lines among lines the reader has to turn into readings, in order
RecognisedAmong(lines) ==
    LET idx == Ascending({k \in 1..Len(lines) : Recognised(lines[k])})
    IN  [i \in 1..Len(idx) |-> lines[idx[i]]]

\* the complete lines of s the reader has to turn into readings, in order
RecognisedLines(s) == RecognisedAmong(CompleteLines(s))

ReadingLines == [i \in 1..Len(readings) |-> readings[i].line]

\* the emitted object of a reading, without the history field
Emitted(r) == [temperatureValue |-> r.temperatureValue, unit |-> r.unit]

\* the readings the reader emits when the bytes arrive as one chunk on a new
\* reader
OneChunkReadings(bytes) == processBuffer(<<>> \o toStringAscii(bytes)).events

\* C5: however the stream delivered so far was cut into chunks, the readings
\* emitted are, in order, those of the same bytes delivered as one chunk,
\* and they follow the left-to-right order of their lines in the stream.
C5_ChunkingInvariant ==
    /\ [i \in 1..Len(readings) |-> Emitted(readings[i])]
         = [i \in 1..Len(OneChunkReadings(received)) |->
               Emitted(OneChunkReadings(received)[i])]
    /\ LET lines == CompleteLines(TextOf(received))
       IN  \E f \in [1..Len(readings) -> 1..Len(lines)] :
               /\ \A i \in 1..Len(readings) : lines[f[i]] = readings[i].line
               /\ \A i, j \in 1..Len(readings) : i < j => f[i] < f[j]

\* C5 witness: two readings have been emitted from a stream that was cut
\* between a carriage return and its line feed.
C5_Witness ==
    /\ last.op = "data"
    /\ last.cut = "terminator"
    /\ Len(last.emitted) >= 1
    /\ Len(readings) = 2
    /\ readings[1].line # readings[2].line

\* C6: a data turn emits readings only for the lines whose terminator it
\* completes, one for each such line that is a reading, built from the
\* whole line; text still without its terminator yields nothing.
C6_NoPartialReading ==
    [][LET before == CompleteLines(TextOf(received))
           after  == CompleteLines(TextOf(received'))
           fresh  == SubSeq(after, Len(before) + 1, Len(after))
           added  == Len(readings') - Len(readings)
       IN  /\ added >= 0
           /\ SubSeq(readings', 1, Len(readings)) = readings
           /\ [i \in 1..added |-> readings'[Len(readings) + i].line]
                = RecognisedAmong(fresh)]_vars

\* C6 witness: "12.3" was held in the buffer and the chunk that brought
\* "4C\r\n" gave the one reading 12.34 C.
C6_Witness ==
    /\ last.op = "data"
    /\ last.cut = "line"
    /\ received = <<49, 50, DOT, 51, 52, UC, CR, LF>>
    /\ readings = <<[temperatureValue |-> [num |-> 1234, exp |-> 2],
                     unit |-> <<UC>>,
                     line |-> <<49, 50, DOT, 51, 52, UC>>]>>

\* C7: the readings emitted are, one for one and in order, the completed
\* lines that match the pattern and are not ">" or "T"; the data reaction
\* emits no other event.
C7_RecognisedLinesOnly ==
    /\ ReadingLines = RecognisedLines(TextOf(received))
    /\ last.op = "data" =>
           \A i \in 1..Len(last.emitted) :
               last.emitted[i].type = "serialDataTemperature"

\* C7 witness: of two completed lines, one gave a reading and the other
\* gave nothing.
C7_Witness ==
    /\ input = <<>>
    /\ Len(CompleteLines(TextOf(received))) = 2
    /\ Len(readings) = 1
    /\ last.op = "data"

\* C8: the unit of every reading is "", "C" or "F": the letter the line
\* ends with when that is C or F, the empty string otherwise; a line
\* without unit gives no error event.
C8_UnitOfReading ==
    /\ \A i \in 1..Len(readings) :
           LET t == Stripped(readings[i].line)
               u == readings[i].unit
           IN  /\ u \in {<<>>, <<UC>>, <<UF>>}
               /\ t # <<>>
               /\ u = <<UC>> <=> t[Len(t)] = UC
               /\ u = <<UF>> <=> t[Len(t)] = UF
    /\ last.op = "data" =>
           \A i \in 1..Len(last.emitted) :
               last.emitted[i].type # "serialErrorTemperature"

\* C8 witness: the line "12.3", without unit, gave a reading with the
\* empty unit and the data reaction emitted nothing else.
C8_Witness ==
    /\ last.op = "data"
    /\ Len(last.emitted) = 1
    /\ Len(readings) = 1
    /\ readings[1].unit = <<>>
    /\ Stripped(readings[1].line) = <<49, 50, DOT, 51>>

-----------------------------------------------------------------------------
(* Claims about what each handler leaves alone *)

\* which connections report open
OpenFlags(cs) == [c \in 1..Len(cs) |-> cs[c].state = "open"]

\* C11: the error reaction only emits one serialErrorTemperature event with
\* the error's message: the poll timer, the stored connection handle, which
\* connections report open and the line buffer stay as they were, nothing
\* is written and no connection is created.
C11_ErrorOnlyNotifies ==
    [][last'.op = "error" =>
        /\ Len(last'.emitted) = 1
        /\ last'.emitted[1].type = "serialErrorTemperature"
        /\ last'.emitted[1].arg \in ErrorMessages
        /\ timers' = timers
        /\ readingInterval' = readingInterval
        /\ portTemperature' = portTemperature
        /\ OpenFlags(conns') = OpenFlags(conns)
        /\ buffer' = buffer
        /\ readings' = readings
        /\ last'.wrote = <<>>
        /\ last'.started = {}
        /\ last'.rts = {}]_vars

\* C11 witness: an error arrived on the open current connection while a
\* poll timer was active and a partial line was buffered.
C11_Witness ==
    /\ last.op = "error"
    /\ last.conn = portTemperature
    /\ conns[portTemperature].state = "open"
    /\ readingInterval \in timers
    /\ buffer # <<>>

\* C12: stopTemperatureReading cancels the timer the stored handle names and
\* clears the handle; the connection handle, the connections and the line
\* buffer stay as they were; with no stored handle it changes nothing, so a
\* second call right after a first changes nothing.
C12_StopOnlyCancels ==
    [][last'.op = "stop" =>
        /\ readingInterval' = 0
        /\ timers' = timers \ {readingInterval}
        /\ last'.cleared = {readingInterval} \ {0}
        /\ readingInterval = 0 => timers' = timers
        /\ conns' = conns
        /\ portTemperature' = portTemperature
        /\ buffer' = buffer
        /\ readings' = readings
        /\ last'.wrote = <<>>
        /\ last'.emitted = <<>>]_vars

\* C12 witness: a stop has cancelled the active timer of an open connection
\* that holds a partial line.
C12_Witness ==
    /\ last.op = "stop"
    /\ last.cleared # {}
    /\ timers = {}
    /\ conns[portTemperature].state = "open"
    /\ buffer # <<>>

\* C13: getAvailablePorts resolves with the path of every port the platform
\* lists, in order, and resolves with the empty list, never rejecting, when
\* the platform query fails.
C13_PortsOrEmpty ==
    last.op = "getAvailablePorts" =>
        /\ ~last.result.rejected
        /\ last.query.ok =>
               last.result.value =
                   [i \in 1..Len(last.query.ports) |->
                       last.query.ports[i].path]
        /\ ~last.query.ok => last.result.value = <<>>

\* C13 witness: the platform query failed and the call gave the empty list.
C13_Witness ==
    /\ last.op = "getAvailablePorts"
    /\ ~last.query.ok
    /\ last.result = [rejected |-> FALSE, value |-> <<>>]

\* the part of s after its last terminator, all of s when it has none
AfterLastTerminator(s) ==
    LET at == TerminatorsIn(s)
    IN  IF at = {} THEN s
        ELSE SubSeq(s, (CHOOSE i \in at : \A j \in at : j <= i) + 2, Len(s))

\* C14: after every data reaction the line buffer holds no terminator and
\* is exactly the text received so far that follows the last terminator.
C14_BufferIsTail ==
    /\ TerminatorsIn(buffer) = {}
    /\ buffer = AfterLastTerminator(TextOf(received))

\* C14 witness: a chunk was appended to a held partial line, a terminator
\* has been seen and the buffer holds the unterminated text after it.
C14_Witness ==
    /\ last.op = "data"
    /\ last.cut = "line"
    /\ TerminatorsIn(TextOf(received)) # {}
    /\ buffer # <<>>
    /\ Len(buffer) < Len(received)

\* C15: every open event sets RTS on the connection that opened, leaves a
\* poll timer active for it and emits the port-opened notification with
\* that connection's port name; no port-opened notification is emitted
\* without polling having been started.
C15_OpenStartsPolling ==
    last.op = "open" =>
        /\ last.conn \in last.rts
        /\ last.started # {}
        /\ readingInterval \in timers
        /\ last.emitted = <<[type |-> "portOpenedTemperature",
                             arg |-> conns[last.conn].path]>>

\* C16: whenever the stored timer handle is set, the current connection
\* exists and reports open; a timer is started only then; right after
\* initializeSerialPort the stored handle is null.
C16_TimerNeedsOpenPort ==
    /\ readingInterval # 0 =>
           /\ portTemperature # 0
           /\ conns[portTemperature].state = "open"
           /\ readingInterval \in timers
    /\ last.started # {} =>
           /\ portTemperature # 0
           /\ conns[portTemperature].state = "open"
    /\ last.op = "initialize" => readingInterval = 0

\* C16 witness: a timer handle is stored for the second connection, after a
\* re-initialize.
C16_Witness ==
    /\ readingInterval # 0
    /\ portTemperature = 2
    /\ last.op = "open"
    /\ last.conn = 2

\* C17: the data reaction writes nothing and starts, cancels or replaces no
\* timer; a tick writes the command once, whatever has or has not arrived,
\* and leaves the line buffer and the readings as they were.
C17_TicksIgnoreData ==
    [][/\ last'.op = "data" =>
              /\ last'.wrote = <<>>
              /\ last'.started = {}
              /\ last'.cleared = {}
              /\ timers' = timers
              /\ readingInterval' = readingInterval
       /\ last'.op = "tick" =>
              /\ Len(last'.wrote) = 1
              /\ last'.wrote[1].text = Command
              /\ buffer' = buffer
              /\ readings' = readings
              /\ input' = input
              /\ timers' = timers]_vars

\* C17 witness: a tick has written the command while a partial line was
\* waiting in the buffer.
C17_Witness ==
    /\ last.op = "tick"
    /\ Len(last.wrote) = 1
    /\ buffer # <<>>
    /\ input # <<>>

\* C18: only the data reaction changes the line buffer, so the text received
\* before a re-initialize stays in front of what the new connection
\* delivers: the readings are always those of all the text received, over
\* all connections.
C18_OnlyDataChangesBuffer ==
    [][/\ buffer' # buffer => last'.op = "data"
       /\ last'.op \in {"initialize", "stop", "open", "error", "tick",
                        "closed"} => buffer' = buffer
       /\ buffer' = AfterLastTerminator(TextOf(received'))
       /\ ReadingLines' = RecognisedLines(TextOf(received'))]_vars

\* C18 witness: a partial line received on the first connection is still in
\* the buffer after initializeSerialPort has replaced that connection.
C18_Witness ==
    /\ last.op = "initialize"
    /\ Len(conns) = 2
    /\ conns[2].state = "opening"
    /\ buffer # <<>>
    /\ buffer = TextOf(received)

====
